---- MODULE Spec2Model ----
(***************************************************************************)
(* A model of RetrivalEngine (src/services/retrival_engine.py): the        *)
(* retrieval cache, its snapshot on disk, the embedding cache and the      *)
(* vector index the engine drives.  One action per public operation; the   *)
(* outcome of every external call (embedding function, index upsert /      *)
(* query / delete, snapshot write) is chosen by the environment.           *)
(***************************************************************************)
EXTENDS Integers, Sequences, FiniteSets, TLC

\* ------------------------------------------------------------------ bounds
MaxUuid == 1
MaxBatch == 2
MaxFaults == 1
MaxIds == 3

Contents == {"a", "b"}
ItemTypes == {"t1"}
Queries == {"a"}
TopKs == {2}
MetaRefs == {"m1", "m2"}

\* ------------------------------------------------------------ plain values
EmptyMap == <<>>

SetItem(d, k, v) == [x \in (DOMAIN d) \cup {k} |-> IF x = k THEN v ELSE d[x]]

SeqsUpTo(S, n) == UNION {[1..k -> S] : k \in 0..n}

Range(s) == {s[i] : i \in DOMAIN s}

\* Python's None for the optional filter, and a dict as its items in
\* insertion order.
FilterNone == [isNone |-> TRUE, items |-> <<>>]

Dict(items) == [isNone |-> FALSE, items |-> items]

\* the filters the callers of get_retrivals pass
GetFilters ==
    { FilterNone,
      Dict(<< <<"item_type", "t1">>, <<"content", "a">> >>) }

\* faulty variant of Uuid: every draw gives the same string
SameUuid(n) == <<"uuid", 0>>

\* ids: uuid4 strings and the positional "item_<i>" strings
Uuid(n) == <<"uuid", n>>

ItemId(i) == <<"item_", i>>

IdRank(id) == IF id[1] = "item_" THEN id[2] ELSE 1000 + id[2]

\* ------------------------------------------------------ embedding function
\* The external embedding function: deterministic, text -> vector.
Embed(content) == IF content = "a" THEN <<1, 0>> ELSE <<0, 1>>

\* similarity the index ranks by (scaled cosine of the unit vectors)
Score(u, v) == 100 * (u[1] * v[1] + u[2] * v[2])

\* lexicographic rank of the strings that occur as filter keys and values
Lex == <<"a", "b", "content", "item_type", "t1", "t2">>

StrRank(s) == CHOOSE i \in DOMAIN Lex : Lex[i] = s

\* Python's order on (key, value) tuples
TupleLeq(x, y) ==
    \/ StrRank(x[1]) < StrRank(y[1])
    \/ x[1] = y[1] /\ StrRank(x[2]) <= StrRank(y[2])

RECURSIVE Insert(_, _)
Insert(x, s) ==
    IF s = <<>> THEN <<x>>
    ELSE IF TupleLeq(x, s[1]) THEN <<x>> \o s
    ELSE <<s[1]>> \o Insert(x, Tail(s))

\* faulty variant of sorted: the items in the order of the dict
Unsorted(items) == items

\* sorted(filter_criteria.items())
RECURSIVE sorted(_)
sorted(items) ==
    IF items = <<>> THEN <<>> ELSE Insert(items[1], sorted(Tail(items)))

\* str() of a list of tuples, as a sequence of tokens
RECURSIVE StrItems(_)
StrItems(items) ==
    IF items = <<>> THEN <<>>
    ELSE <<"(", items[1][1], ",", items[1][2], ")">> \o StrItems(Tail(items))

str(items) == <<"[">> \o StrItems(items) \o <<"]">>

\* a dict is falsy when it is None or empty
Truthy(filter_criteria) ==
    ~filter_criteria.isNone /\ filter_criteria.items # <<>>

\* hashlib.md5(...).hexdigest(): a digest that is collision-free on the
\* strings of the model
md5(key_str) == [md5 |-> key_str]

_generate_retrieval_key(query, top_k, filter_criteria) ==
    LET filter_str == IF Truthy(filter_criteria)
                      THEN str(sorted(filter_criteria.items))
                      ELSE <<"None">>
        key_str == <<query, "|", top_k, "|">> \o filter_str
    IN  md5(key_str)

\* ------------------------------------------------------------------ pickle
\* pickle.dump of a dict: its entries one after the other.
RECURSIVE DumpEntries(_, _)
DumpEntries(d, keys) ==
    IF keys = {} THEN <<>>
    ELSE LET k == CHOOSE x \in keys : TRUE
         IN  <<[key |-> k, value |-> d[k]]>> \o DumpEntries(d, keys \ {k})

PickleDump(d) == DumpEntries(d, DOMAIN d)

\* faulty variant of PickleLoad: only the first entry is read
PickleLoadFirst(bytes) ==
    IF bytes = <<>> THEN EmptyMap
    ELSE SetItem(EmptyMap, bytes[1].key, bytes[1].value)

\* pickle.load: the dict rebuilt entry by entry
RECURSIVE PickleLoad(_)
PickleLoad(bytes) ==
    IF bytes = <<>> THEN EmptyMap
    ELSE LET n == Len(bytes)
         IN  SetItem(PickleLoad(SubSeq(bytes, 1, n - 1)),
                     bytes[n].key, bytes[n].value)

NoFile == [kind |-> "missing", bytes |-> <<>>]

CorruptFile == [kind |-> "corrupt", bytes |-> <<>>]

PickleFile(bytes) == [kind |-> "pickle", bytes |-> bytes]

\* faulty variant of _load_retrieval_cache: the file is never read
LoadNothing(file) == EmptyMap

_load_retrieval_cache(file) ==
    IF file.kind = "pickle" THEN PickleLoad(file.bytes) ELSE EmptyMap

\* faulty variant of _save_retrieval_cache: the file is left as it is
SaveNothing(cache, file, outcome) == file

\* The write of the snapshot: it succeeds, or open() fails and the old file
\* stays, or the write fails after open() truncated the file.
SaveOutcomes == {"ok", "open_fails", "write_fails"}

_save_retrieval_cache(cache, file, outcome) ==
    CASE outcome = "ok" -> PickleFile(PickleDump(cache))
      [] outcome = "open_fails" -> file
      [] outcome = "write_fails" -> CorruptFile

\* ------------------------------------------------------------ vector index
\* The remote index: id -> [values, metadata].  upsert applies the vectors
\* in order; a call that fails may have committed a prefix of its batch.
RECURSIVE IndexUpsert(_, _, _)
IndexUpsert(idx, vectors, committed) ==
    IF committed = 0 THEN idx
    ELSE LET v == vectors[committed]
         IN  SetItem(IndexUpsert(idx, vectors, committed - 1), v.id,
                     [values |-> v.values, metadata |-> v.metadata])

\* faulty variant of IndexDelete: nothing is deleted
IndexDeleteNothing(idx, ids) == idx

IndexDelete(idx, ids) == [i \in (DOMAIN idx) \ ids |-> idx[i]]

\* the metadata filter of a query: every field of the filter is matched
FilterMatches(filter, metadata) ==
    \/ filter.isNone
    \/ \A i \in DOMAIN filter.items :
          /\ filter.items[i][1] \in DOMAIN metadata
          /\ metadata[filter.items[i][1]] = filter.items[i][2]

\* the best of a set of candidate ids: highest score, then lowest id
Nearest(idx, vector, cands) ==
    CHOOSE i \in cands : \A j \in cands :
        \/ Score(vector, idx[i].values) > Score(vector, idx[j].values)
        \/ /\ Score(vector, idx[i].values) = Score(vector, idx[j].values)
           /\ IdRank(i) <= IdRank(j)

RECURSIVE Ranked(_, _, _, _)
Ranked(idx, vector, cands, k) ==
    IF k = 0 \/ cands = {} THEN <<>>
    ELSE LET i == Nearest(idx, vector, cands)
         IN  <<[id |-> i, score |-> Score(vector, idx[i].values),
                values |-> <<>>, metadata |-> idx[i].metadata]>>
             \o Ranked(idx, vector, cands \ {i}, k - 1)

\* index.query(vector, top_k, include_metadata=True, filter): the response
IndexQuery(idx, vector, top_k, filter) ==
    [matches |-> Ranked(idx, vector,
                        {i \in DOMAIN idx : FilterMatches(filter, idx[i].metadata)},
                        top_k),
     namespace |-> ""]

\* faulty variant of Recommendations: only the first match is kept
RecommendationsFirst(results) ==
    [i \in {j \in DOMAIN results.matches : j = 1} |->
        [id |-> results.matches[i].id,
         score |-> results.matches[i].score,
         metadata |-> results.matches[i].metadata]]

\* the loop that formats the matches of a response
Recommendations(results) ==
    [i \in DOMAIN results.matches |->
        [id |-> results.matches[i].id,
         score |-> results.matches[i].score,
         metadata |-> results.matches[i].metadata]]

\* --------------------------------------------------------- embedding cache
\* EmbeddingCache.get_embedding on the cache map `cache`: a stored vector is
\* returned as it is; otherwise the embedding function is invoked (it fails
\* for the contents of `embFail`), and its result stored.  `invoked` is the
\* set of contents the embedding function has been invoked for so far.
get_embedding(ec, content, embFail) ==
    IF content \in DOMAIN ec.cache
    THEN [ok |-> TRUE, vec |-> ec.cache[content], ec |-> ec,
          called |-> FALSE, again |-> FALSE]
    ELSE IF content \in embFail
    THEN [ok |-> FALSE, vec |-> <<>>,
          ec |-> [ec EXCEPT !.invoked = @ \cup {content}],
          called |-> TRUE, again |-> content \in ec.invoked]
    ELSE [ok |-> TRUE, vec |-> Embed(content),
          ec |-> [cache |-> SetItem(ec.cache, content, Embed(content)),
                  invoked |-> ec.invoked \cup {content}],
          called |-> TRUE, again |-> content \in ec.invoked]

\* faulty variant of Embeddings: every lookup sees the cache as it was when
\* the batch started
RECURSIVE EmbeddingsNoReuse(_, _, _, _)
EmbeddingsNoReuse(ec, contents, n, embFail) ==
    IF n = 0
    THEN [ok |-> TRUE, vecs |-> <<>>, ec |-> ec, lookups |-> 0, calls |-> 0,
          again |-> FALSE, redone |-> FALSE]
    ELSE LET prev == EmbeddingsNoReuse(ec, contents, n - 1, embFail)
             e == get_embedding([cache |-> ec.cache, invoked |-> prev.ec.invoked],
                                contents[n], embFail)
         IN  IF ~prev.ok THEN prev
             ELSE [ok |-> e.ok,
                   vecs |-> IF e.ok THEN Append(prev.vecs, e.vec) ELSE prev.vecs,
                   ec |-> [cache |-> IF e.ok
                                     THEN SetItem(prev.ec.cache, contents[n], e.vec)
                                     ELSE prev.ec.cache,
                           invoked |-> e.ec.invoked],
                   lookups |-> prev.lookups + 1,
                   calls |-> prev.calls + (IF e.called THEN 1 ELSE 0),
                   again |-> prev.again \/ e.again,
                   redone |-> \/ prev.redone
                              \/ e.called /\ contents[n] \in DOMAIN prev.ec.cache]

\* the embedding loop of bulk_add_items over the first n contents
RECURSIVE Embeddings(_, _, _, _)
Embeddings(ec, contents, n, embFail) ==
    IF n = 0
    THEN [ok |-> TRUE, vecs |-> <<>>, ec |-> ec, lookups |-> 0, calls |-> 0,
          again |-> FALSE, redone |-> FALSE]
    ELSE LET prev == Embeddings(ec, contents, n - 1, embFail)
             e == get_embedding(prev.ec, contents[n], embFail)
         IN  IF ~prev.ok THEN prev
             ELSE [ok |-> e.ok,
                   vecs |-> IF e.ok THEN Append(prev.vecs, e.vec) ELSE prev.vecs,
                   ec |-> e.ec,
                   lookups |-> prev.lookups + 1,
                   calls |-> prev.calls + (IF e.called THEN 1 ELSE 0),
                   again |-> prev.again \/ e.again,
                   redone |-> \/ prev.redone
                              \/ e.called /\ contents[n] \in DOMAIN prev.ec.cache]

\* ------------------------------------------------------------------- state
VARIABLES
    index,                 \* the remote index: id -> [values, metadata]
    embedding_cache,       \* EmbeddingCache's map: content -> vector
    retrieval_cache,       \* self.retrieval_cache: key -> recommendations
    retrieval_cache_file,  \* the snapshot retrieval_cache.pkl
    uuids,                 \* number of uuid4 ids drawn so far
    faults,                \* number of external calls that have failed so far
    invoked,               \* history: contents the embedding function was invoked for
    old,                   \* history: keys whose result was cached before a
                           \*   successful index mutation and not fetched from
                           \*   the index since
    staleFile,             \* history: keys of the snapshot whose entry was
                           \*   written before a successful index mutation
    gone,                  \* history: ids deleted and not upserted since
    ret,                   \* the last call: its outcome and its external calls
    pending                \* a call that has started and not returned yet, in
                           \*   the specifications that follow a call step by
                           \*   step: its arguments and what it holds; <<>>
                           \*   when every call runs from start to return

vars == <<index, embedding_cache, retrieval_cache, retrieval_cache_file, uuids,
          faults, invoked, old, staleFile, gone, ret, pending>>

\* The caller's metadata dicts as they are when a call starts: one empty,
\* one that already carries a content and an item_type field.
CallerHeap ==
    [m \in MetaRefs |->
        IF m = "m1" THEN EmptyMap
        ELSE SetItem(SetItem(EmptyMap, "content", "b"), "item_type", "t2")]

Call(op) ==
    [op |-> op, ok |-> TRUE, err |-> "", out |-> <<>>,
     hit |-> FALSE, key |-> <<>>, old |-> FALSE, dropped |-> 0,
     lookups |-> 0, embeds |-> 0, again |-> FALSE, redone |-> FALSE,
     mismatch |-> FALSE,
     upserts |-> 0, queries |-> 0, deletes |-> 0, saves |-> 0,
     saved |-> FALSE, touched |-> FALSE]

EC == [cache |-> embedding_cache, invoked |-> invoked]

KeysOf(file) == DOMAIN _load_retrieval_cache(file)

StaleAfterSave(sm, sf, outcome) ==
    CASE outcome = "ok" -> sm
      [] outcome = "open_fails" -> sf
      [] outcome = "write_fails" -> {}

\* one more external call has failed
Fault ==
    /\ faults < MaxFaults
    /\ faults' = faults + 1

NoFault == UNCHANGED faults

\* faulty variant of Cleared: the map is left as it is
NotCleared(cache) == cache

\* "self.retrieval_cache = {}"
Cleared(cache) == EmptyMap

\* faulty variant of IsCached: the lookup never finds the key
NeverCached(cache, cache_key) == FALSE

\* "cache_key in self.retrieval_cache"
IsCached(cache, cache_key) == cache_key \in DOMAIN cache

\* __init__ in an empty or unreadable cache directory
Init ==
    /\ index = EmptyMap
    /\ embedding_cache = EmptyMap
    /\ retrieval_cache_file \in {NoFile, CorruptFile}
    /\ retrieval_cache = _load_retrieval_cache(retrieval_cache_file)
    /\ uuids = 0
    /\ faults = 0
    /\ invoked = {}
    /\ old = {}
    /\ staleFile = {}
    /\ gone = {}
    /\ ret = Call("init")
    /\ pending = <<>>

\* faulty variant of ClearAfterMutation: the snapshot is rewritten, the map
\* is not emptied first
SaveOnly(save) ==
    /\ UNCHANGED retrieval_cache
    /\ retrieval_cache_file' =
           _save_retrieval_cache(retrieval_cache, retrieval_cache_file, save)
    /\ old' = old \cup DOMAIN retrieval_cache
    /\ staleFile' = StaleAfterSave(DOMAIN retrieval_cache,
                                   KeysOf(retrieval_cache_file), save)
    /\ IF save = "ok" THEN NoFault ELSE Fault

\* faulty variant of ClearAfterMutation: the map is emptied only when the
\* snapshot could be written
ClearIfSaved(save) ==
    /\ retrieval_cache' = IF save = "ok" THEN EmptyMap ELSE retrieval_cache
    /\ retrieval_cache_file' =
           _save_retrieval_cache(EmptyMap, retrieval_cache_file, save)
    /\ old' = old \cup DOMAIN retrieval_cache
    /\ staleFile' = StaleAfterSave({}, KeysOf(retrieval_cache_file), save)
    /\ IF save = "ok" THEN NoFault ELSE Fault

\* "self.retrieval_cache = {}; self._save_retrieval_cache()" after an index
\* mutation that succeeded
ClearAfterMutation(save) ==
    /\ retrieval_cache' = Cleared(retrieval_cache)
    /\ retrieval_cache_file' =
           _save_retrieval_cache(retrieval_cache', retrieval_cache_file, save)
    /\ old' = old \cup DOMAIN retrieval_cache
    /\ staleFile' = StaleAfterSave(DOMAIN retrieval_cache',
                                   KeysOf(retrieval_cache_file), save)
    /\ IF save = "ok" THEN NoFault ELSE Fault

\* faulty variant of CacheUnchanged: the map is emptied although the call
\* did not get to its invalidation
CacheInvalidated ==
    /\ retrieval_cache' = EmptyMap
    /\ UNCHANGED <<retrieval_cache_file, old, staleFile>>

\* a call that raises before its invalidation, and a cache hit
CacheUnchanged ==
    UNCHANGED <<retrieval_cache, retrieval_cache_file, old, staleFile>>

\* What the environment may answer to an upsert of n vectors: success (and
\* then any outcome of the snapshot write), or a failure after k of the
\* vectors were committed.
UpsertOutcomes(n) ==
    {<<TRUE, n, save>> : save \in SaveOutcomes}
        \cup {<<FALSE, k, "ok">> : k \in 0..n}

\* the outcomes with no failure are the only ones left once MaxFaults
\* external calls have failed
Within(outcomes, good) == IF faults < MaxFaults THEN outcomes ELSE {good}

\* What the environment may do to a call that looks up embeddings and then
\* upserts n vectors: <<embFail, upsertOk, committed, save>>
AddOutcomes(n) ==
    {<<{}, o[1], o[2], o[3]>> : o \in UpsertOutcomes(n)}
        \cup {<<f, TRUE, n, "ok">> : f \in (SUBSET Contents) \ {{}}}

Upserted(vectors, committed) == {vectors[i].id : i \in 1..committed}

\* ---------------------------------------------------------------- add_item
add_item(content, m, item_type, embFail, upsertOk, committed, save) ==
    LET call == Call("add_item")
        metas == [CallerHeap EXCEPT ![m] =
                     SetItem(SetItem(@, "content", content), "item_type", item_type)]
        e == get_embedding(EC, content, embFail)
        item_id == Uuid(uuids + 1)
        vectors == <<[id |-> item_id, values |-> e.vec, metadata |-> metas[m]]>>
        c1 == [call EXCEPT !.touched = (metas # CallerHeap), !.lookups = 1,
                           !.embeds = IF e.called THEN 1 ELSE 0,
                           !.again = e.again,
                           !.redone = e.called /\ content \in DOMAIN embedding_cache]
    IN  /\ embedding_cache' = e.ec.cache
        /\ invoked' = e.ec.invoked
        /\ IF ~e.ok
           THEN /\ ret' = [c1 EXCEPT !.ok = FALSE, !.err = "embedding"]
                /\ Fault
                /\ UNCHANGED <<index, uuids, gone>>
                /\ CacheUnchanged
           ELSE /\ uuids' = uuids + 1
                /\ index' = IndexUpsert(index, vectors, committed)
                /\ gone' = gone \ Upserted(vectors, committed)
                /\ IF ~upsertOk
                   THEN /\ ret' = [c1 EXCEPT !.ok = FALSE, !.err = "upsert",
                                             !.upserts = 1]
                        /\ Fault
                        /\ CacheUnchanged
                   ELSE /\ committed = 1
                        /\ ClearAfterMutation(save)
                        /\ ret' = [c1 EXCEPT !.upserts = 1, !.saves = 1,
                                             !.saved = (save = "ok"),
                                             !.dropped = Cardinality(DOMAIN retrieval_cache),
                                             !.out = item_id]

AddItem ==
    /\ uuids < MaxUuid
    /\ UNCHANGED pending
    /\ \E content \in Contents, m \in MetaRefs, item_type \in ItemTypes,
          o \in Within(AddOutcomes(1), <<{}, TRUE, 1, "ok">>) :
           add_item(content, m, item_type, o[1], o[2], o[3], o[4])

\* ------------------------------------------------------------- delete_item
Ids == {ItemId(i) : i \in 0..(MaxBatch - 1)} \cup {Uuid(n) : n \in 1..MaxUuid}

delete_item(item_id, deleteOk, deleted, save) ==
    LET call == [Call("delete_item") EXCEPT !.deletes = 1]
    IN  /\ index' = IF deleted THEN IndexDelete(index, {item_id}) ELSE index
        /\ UNCHANGED <<embedding_cache, invoked, uuids>>
        /\ IF ~deleteOk
           THEN /\ ret' = [call EXCEPT !.ok = FALSE, !.err = "delete"]
                /\ Fault
                /\ UNCHANGED gone
                /\ CacheUnchanged
           ELSE /\ deleted
                /\ gone' = gone \cup {item_id}
                /\ ClearAfterMutation(save)
                /\ ret' = [call EXCEPT !.saves = 1, !.saved = (save = "ok"),
                                       !.dropped = Cardinality(DOMAIN retrieval_cache)]

DeleteOutcomes ==
    {<<TRUE, TRUE, save>> : save \in SaveOutcomes}
        \cup {<<FALSE, deleted, "ok">> : deleted \in BOOLEAN}

DeleteItem ==
    /\ UNCHANGED pending
    /\ \E item_id \in Ids, o \in Within(DeleteOutcomes, <<TRUE, TRUE, "ok">>) :
           delete_item(item_id, o[1], o[2], o[3])

\* --------------------------------------------------- clear_retrieval_cache
\* faulty variant of clear_retrieval_cache: nothing is emptied or written
clear_nothing(save) ==
    /\ UNCHANGED <<retrieval_cache, retrieval_cache_file, old, staleFile>>
    /\ NoFault
    /\ ret' = [Call("clear_retrieval_cache") EXCEPT !.saves = 1, !.saved = TRUE]
    /\ UNCHANGED <<index, embedding_cache, invoked, uuids, gone>>

clear_retrieval_cache(save) ==
    /\ retrieval_cache' = Cleared(retrieval_cache)
    /\ retrieval_cache_file' =
           _save_retrieval_cache(retrieval_cache', retrieval_cache_file, save)
    /\ UNCHANGED old
    /\ staleFile' = StaleAfterSave(old \cap DOMAIN retrieval_cache',
                                   staleFile, save)
    /\ IF save = "ok" THEN NoFault ELSE Fault
    /\ ret' = [Call("clear_retrieval_cache")
                  EXCEPT !.saves = 1, !.saved = (save = "ok"),
                         !.dropped = Cardinality(DOMAIN retrieval_cache)]
    /\ UNCHANGED <<index, embedding_cache, invoked, uuids, gone>>

ClearRetrievalCache ==
    /\ UNCHANGED pending
    /\ \E save \in Within(SaveOutcomes, "ok") : clear_retrieval_cache(save)

\* ----------------------------------------------------------- get_retrivals
get_retrivals(query, top_k, filter_criteria, embFail, queryOk, save) ==
    LET call == Call("get_retrivals")
        cache_key == _generate_retrieval_key(query, top_k, filter_criteria)
        c0 == [call EXCEPT !.key = cache_key, !.old = cache_key \in old]
        e == get_embedding(EC, query, embFail)
        c1 == [c0 EXCEPT !.lookups = 1, !.embeds = IF e.called THEN 1 ELSE 0,
                         !.again = e.again,
                         !.redone = e.called /\ query \in DOMAIN embedding_cache]
        results == IndexQuery(index, e.vec, top_k, filter_criteria)
        recommendations == Recommendations(results)
        cache == SetItem(retrieval_cache, cache_key, recommendations)
    IN  IF IsCached(retrieval_cache, cache_key)
        THEN /\ ret' = [c0 EXCEPT !.hit = TRUE,
                                  !.out = retrieval_cache[cache_key]]
             /\ NoFault
             /\ UNCHANGED <<index, embedding_cache, invoked, uuids, gone>>
             /\ CacheUnchanged
        ELSE /\ embedding_cache' = e.ec.cache
             /\ invoked' = e.ec.invoked
             /\ UNCHANGED <<index, uuids, gone>>
             /\ IF ~e.ok
                THEN /\ ret' = [c1 EXCEPT !.ok = FALSE, !.err = "embedding"]
                     /\ Fault
                     /\ CacheUnchanged
                ELSE IF ~queryOk
                THEN /\ ret' = [c1 EXCEPT !.ok = FALSE, !.err = "query",
                                          !.queries = 1]
                     /\ Fault
                     /\ CacheUnchanged
                ELSE /\ retrieval_cache' = cache
                     /\ retrieval_cache_file' =
                            _save_retrieval_cache(cache, retrieval_cache_file, save)
                     /\ old' = old \ {cache_key}
                     /\ staleFile' =
                            StaleAfterSave(old' \cap DOMAIN cache, staleFile, save)
                     /\ IF save = "ok" THEN NoFault ELSE Fault
                     /\ ret' = [c1 EXCEPT !.queries = 1, !.saves = 1,
                                          !.saved = (save = "ok"),
                                          !.out = recommendations]

\* <<embFail, queryOk, save>>
QueryOutcomes ==
    {<<{}, TRUE, save>> : save \in SaveOutcomes}
        \cup {<<{}, FALSE, "ok">>, <<Contents, TRUE, "ok">>}

GetRetrivals ==
    /\ UNCHANGED pending
    /\ \E query \in Queries, top_k \in TopKs, filter_criteria \in GetFilters,
          o \in Within(QueryOutcomes, <<{}, TRUE, "ok">>) :
           get_retrivals(query, top_k, filter_criteria, o[1], o[2], o[3])

\* ---------------------------------------------------------- bulk_add_items
\* faulty variant of SameLength: longer metadatas and item_types pass
SameLengthLenient(contents, metadatas, item_types) ==
    Len(contents) <= Len(metadatas) /\ Len(contents) <= Len(item_types)

\* "len(contents) == len(metadatas) == len(item_types)"
SameLength(contents, metadatas, item_types) ==
    Len(contents) = Len(metadatas) /\ Len(metadatas) = Len(item_types)

\* the loop that writes content and item_type into the callers' dicts
RECURSIVE MergeFields(_, _, _, _, _)
MergeFields(heap, contents, metadatas, item_types, n) ==
    IF n = 0 THEN heap
    ELSE [MergeFields(heap, contents, metadatas, item_types, n - 1)
             EXCEPT ![metadatas[n]] =
                 SetItem(SetItem(@, "content", contents[n]),
                         "item_type", item_types[n])]

bulk_add_items(contents, metadatas, item_types, embFail, upsertOk, committed, save) ==
    LET call == [Call("bulk_add_items") EXCEPT !.mismatch =
                    ~(Len(contents) = Len(metadatas)
                        /\ Len(contents) = Len(item_types))]
        n == Len(contents)
        es == Embeddings(EC, contents, n, embFail)
        c1 == [call EXCEPT !.lookups = es.lookups, !.embeds = es.calls,
                           !.again = es.again, !.redone = es.redone]
        metas == MergeFields(CallerHeap, contents, metadatas, item_types, n)
        \* each vector holds a reference to its dict, read when the batch is sent
        vectors == [i \in 1..n |->
                       [id |-> ItemId(i - 1), values |-> es.vecs[i],
                        metadata |-> metas[metadatas[i]]]]
    IN  IF ~SameLength(contents, metadatas, item_types)
        THEN /\ ret' = [call EXCEPT !.ok = FALSE, !.err = "ValueError"]
             /\ NoFault
             /\ UNCHANGED <<index, embedding_cache, invoked, uuids, gone>>
             /\ CacheUnchanged
        ELSE /\ embedding_cache' = es.ec.cache
             /\ invoked' = es.ec.invoked
             /\ UNCHANGED uuids
             /\ IF ~es.ok
                THEN /\ ret' = [c1 EXCEPT !.ok = FALSE, !.err = "embedding"]
                     /\ Fault
                     /\ UNCHANGED <<index, gone>>
                     /\ CacheUnchanged
                ELSE /\ committed <= n
                     /\ index' = IndexUpsert(index, vectors, committed)
                     /\ gone' = gone \ Upserted(vectors, committed)
                     /\ IF ~upsertOk
                        THEN /\ ret' = [c1 EXCEPT !.ok = FALSE, !.err = "upsert",
                                                  !.upserts = 1,
                                                  !.touched = (metas # CallerHeap)]
                             /\ Fault
                             /\ CacheUnchanged
                        ELSE /\ committed = n
                             /\ ClearAfterMutation(save)
                             /\ ret' = [c1 EXCEPT !.upserts = 1, !.saves = 1,
                                                  !.saved = (save = "ok"),
                                                  !.touched = (metas # CallerHeap),
                                                  !.dropped = Cardinality(DOMAIN retrieval_cache),
                                                  !.out = [i \in 1..n |-> vectors[i].id]]

\* item_types lists: the two types in turn
TypeList(n) == [i \in 1..n |-> IF i % 2 = 1 THEN "t1" ELSE "t2"]

\* metadatas lists: the two dicts in turn
MetaLists(n) == {[i \in 1..n |-> IF i % 2 = 1 THEN "m1" ELSE "m2"]}

BulkAddItems ==
    \/ \E lc \in 0..MaxBatch, lm \in 0..MaxBatch, lt \in 0..MaxBatch :
           /\ ~(lc = lm /\ lm = lt)
           /\ UNCHANGED pending
           /\ bulk_add_items([i \in 1..lc |-> "a"], [i \in 1..lm |-> "m1"],
                             TypeList(lt), {}, TRUE, 0, "ok")
    \/ \E n \in 0..MaxBatch :
          \E contents \in [1..n -> Contents], metadatas \in MetaLists(n),
             o \in Within(AddOutcomes(n), <<{}, TRUE, n, "ok">>) :
              /\ UNCHANGED pending
              /\ bulk_add_items(contents, metadatas, TypeList(n),
                                o[1], o[2], o[3], o[4])

\* ------------------------------------------------------------ construction
\* A new engine on the same cache directory and index (a process restart):
\* the retrieval cache is what the snapshot holds; the embedding cache is
\* reloaded from its own snapshot, which it rewrote at every store.
Restart ==
    /\ retrieval_cache' = _load_retrieval_cache(retrieval_cache_file)
    /\ old' = (old \ KeysOf(retrieval_cache_file)) \cup staleFile
    /\ UNCHANGED embedding_cache
    /\ ret' = Call("__init__")
    /\ UNCHANGED <<index, retrieval_cache_file, uuids, faults, invoked,
                   staleFile, gone, pending>>

Next ==
    \/ AddItem
    \/ BulkAddItems
    \/ GetRetrivals
    \/ DeleteItem
    \/ ClearRetrievalCache

\* one engine instance
Spec == Init /\ [][Next]_vars

NextRestart == Next \/ Restart

\* engine instances following one another on the same directory and index
SpecRestart == Init /\ [][NextRestart]_vars

\* --------------------------------------------------- the key as a function
\* _generate_retrieval_key applied to a query, a top_k and two filters

KeyItems ==
    {<<"content", c>> : c \in Contents} \cup {<<"item_type", t>> : t \in {"t1", "t2"}}

\* None, and the dicts of at most two fields in every insertion order
KeyFilters ==
    {FilterNone} \cup
    {Dict(items) : items \in
        {s \in SeqsUpTo(KeyItems, 2) :
            \A i \in DOMAIN s, j \in DOMAIN s : i # j => s[i][1] # s[j][1]}}

InitKey ==
    /\ index = EmptyMap
    /\ embedding_cache = EmptyMap
    /\ retrieval_cache_file = NoFile
    /\ retrieval_cache = EmptyMap
    /\ uuids = 0
    /\ faults = 0
    /\ invoked = {}
    /\ old = {}
    /\ staleFile = {}
    /\ gone = {}
    /\ pending = <<>>
    /\ \E query \in Contents, top_k \in 1..2, f1 \in KeyFilters, f2 \in KeyFilters :
          ret = [Call("_generate_retrieval_key")
                    EXCEPT !.out = <<query, top_k, f1, f2>>]

GenerateKeys ==
    /\ ret.op = "_generate_retrieval_key"
    /\ ret.key = <<>>
    /\ ret' = [ret EXCEPT !.key =
                  <<_generate_retrieval_key(ret.out[1], ret.out[2], ret.out[3]),
                    _generate_retrieval_key(ret.out[1], ret.out[2], ret.out[4])>>]
    /\ UNCHANGED <<index, embedding_cache, retrieval_cache, retrieval_cache_file,
                   uuids, faults, invoked, old, staleFile, gone, pending>>

NextKey == GenerateKeys

SpecKey == InitKey /\ [][NextKey]_vars

\* ------------------------------------------------------------- ids of items
\* add_item and bulk_add_items calls whose external calls all succeed, with
\* up to MaxIds add_item calls

AddItemIds ==
    /\ uuids < MaxIds
    /\ UNCHANGED pending
    /\ \E content \in Contents, m \in MetaRefs, item_type \in ItemTypes :
           add_item(content, m, item_type, {}, TRUE, 1, "ok")

BulkAddItemsIds ==
    /\ UNCHANGED pending
    /\ \E n \in 0..MaxBatch :
          \E contents \in [1..n -> Contents], metadatas \in MetaLists(n) :
              bulk_add_items(contents, metadatas, TypeList(n), {}, TRUE, n, "ok")

NextIds == AddItemIds \/ BulkAddItemsIds

SpecIds == Init /\ [][NextIds]_vars

\* ------------------------------------------------- calls that do not fail
GoodAddItem ==
    /\ uuids < MaxUuid
    /\ \E content \in Contents, m \in MetaRefs, item_type \in ItemTypes :
           add_item(content, m, item_type, {}, TRUE, 1, "ok")

GoodDeleteItem ==
    \E item_id \in Ids : delete_item(item_id, TRUE, TRUE, "ok")

GoodGetRetrivals ==
    \E query \in Queries, top_k \in TopKs, filter_criteria \in GetFilters :
        get_retrivals(query, top_k, filter_criteria, {}, TRUE, "ok")

\* ------------------------------------------------------------------ crashes
\* The process dies inside a call and a new engine is constructed on the same
\* directory and index.  A call is cut before its index call, between the
\* return of its index call and the snapshot write, or inside the snapshot
\* write (the file is opened and truncated, the dump is incomplete).
CrashPoints == {"before_index_call", "before_snapshot_write", "in_snapshot_write"}

\* `mutates`: the index call of the operation changes the index; index2,
\* gone2, uuids2 and ec2 are the state once the index call has returned
Crashed(op, mutates, index2, gone2, uuids2, ec2, point) ==
    LET done == point # "before_index_call"
        file2 == IF point = "in_snapshot_write"
                 THEN CorruptFile ELSE retrieval_cache_file
        stale2 == IF done /\ mutates
                  THEN KeysOf(file2) ELSE staleFile \cap KeysOf(file2)
    IN  /\ index' = IF done THEN index2 ELSE index
        /\ gone' = IF done THEN gone2 ELSE gone
        /\ uuids' = IF done THEN uuids2 ELSE uuids
        /\ embedding_cache' = IF done THEN ec2.cache ELSE embedding_cache
        /\ invoked' = IF done THEN ec2.invoked ELSE invoked
        /\ retrieval_cache_file' = file2
        /\ staleFile' = stale2
        /\ retrieval_cache' = _load_retrieval_cache(file2)
        /\ old' = (old \ KeysOf(file2)) \cup stale2
        /\ ret' = Call("__init__")
        /\ UNCHANGED <<faults, pending>>

CrashInAddItem ==
    /\ uuids < MaxUuid
    /\ \E content \in Contents, m \in MetaRefs, item_type \in ItemTypes,
          point \in CrashPoints :
           LET metas == [CallerHeap EXCEPT ![m] =
                            SetItem(SetItem(@, "content", content),
                                    "item_type", item_type)]
               e == get_embedding(EC, content, {})
               item_id == Uuid(uuids + 1)
               vectors == <<[id |-> item_id, values |-> e.vec,
                             metadata |-> metas[m]]>>
           IN  Crashed("add_item", TRUE, IndexUpsert(index, vectors, 1),
                       gone \ {item_id}, uuids + 1, e.ec, point)

CrashInBulkAddItems ==
    \E n \in 1..MaxBatch :
       \E contents \in [1..n -> Contents], metadatas \in MetaLists(n),
          point \in CrashPoints :
           LET es == Embeddings(EC, contents, n, {})
               metas == MergeFields(CallerHeap, contents, metadatas, TypeList(n), n)
               vectors == [i \in 1..n |->
                              [id |-> ItemId(i - 1), values |-> es.vecs[i],
                               metadata |-> metas[metadatas[i]]]]
           IN  Crashed("bulk_add_items", TRUE, IndexUpsert(index, vectors, n),
                       gone \ Upserted(vectors, n), uuids, es.ec, point)

CrashInDeleteItem ==
    \E item_id \in Ids, point \in CrashPoints :
        Crashed("delete_item", TRUE, IndexDelete(index, {item_id}),
                gone \cup {item_id}, uuids, EC, point)

CrashInClearRetrievalCache ==
    \E point \in CrashPoints \ {"before_index_call"} :
        Crashed("clear_retrieval_cache", FALSE, index, gone, uuids, EC, point)

\* get_retrivals has nothing to lose on a hit: the crash is in a miss
CrashInGetRetrivals ==
    \E query \in Queries, top_k \in TopKs, filter_criteria \in GetFilters,
       point \in CrashPoints :
        /\ ~IsCached(retrieval_cache,
                     _generate_retrieval_key(query, top_k, filter_criteria))
        /\ Crashed("get_retrivals", FALSE, index, gone, uuids,
                   get_embedding(EC, query, {}).ec, point)

NextCrash ==
    \/ GoodAddItem /\ UNCHANGED pending
    \/ BulkAddItemsIds
    \/ GoodGetRetrivals /\ UNCHANGED pending
    \/ GoodDeleteItem /\ UNCHANGED pending
    \/ clear_retrieval_cache("ok") /\ UNCHANGED pending
    \/ CrashInAddItem
    \/ CrashInBulkAddItems
    \/ CrashInDeleteItem
    \/ CrashInClearRetrievalCache
    \/ CrashInGetRetrivals

\* calls that never fail, and crashes
SpecCrash == Init /\ [][NextCrash]_vars

\* ------------------------------------------------------- concurrent callers
\* Several callers on one engine.  The engine takes no lock, so the calls of
\* other callers can run between the index query of a get_retrivals miss and
\* its store.  One get_retrivals is followed step by step; the calls of the
\* other callers run from start to return.

\* get_retrivals up to the return of index.query
BeginGetRetrivals ==
    /\ pending = <<>>
    /\ \E query \in Queries, top_k \in TopKs, filter_criteria \in GetFilters :
           LET cache_key == _generate_retrieval_key(query, top_k, filter_criteria)
               e == get_embedding(EC, query, {})
               results == IndexQuery(index, e.vec, top_k, filter_criteria)
           IN  /\ ~IsCached(retrieval_cache, cache_key)
               /\ embedding_cache' = e.ec.cache
               /\ invoked' = e.ec.invoked
               /\ pending' = [key |-> cache_key, results |-> results,
                              overtaken |-> FALSE]
    /\ UNCHANGED <<index, retrieval_cache, retrieval_cache_file, uuids, faults,
                   old, staleFile, gone, ret>>

\* get_retrivals from the formatting of the matches to its return
EndGetRetrivals ==
    /\ pending # <<>>
    /\ LET recommendations == Recommendations(pending.results)
           cache == SetItem(retrieval_cache, pending.key, recommendations)
       IN  /\ retrieval_cache' = cache
           /\ retrieval_cache_file' =
                  _save_retrieval_cache(cache, retrieval_cache_file, "ok")
           /\ old' = IF pending.overtaken
                     THEN old \cup {pending.key} ELSE old \ {pending.key}
           /\ staleFile' = old' \cap DOMAIN cache
           /\ ret' = [Call("get_retrivals")
                         EXCEPT !.key = pending.key, !.old = pending.key \in old,
                                !.lookups = 1, !.queries = 1, !.saves = 1,
                                !.saved = TRUE, !.out = recommendations]
    /\ pending' = <<>>
    /\ UNCHANGED <<index, embedding_cache, invoked, uuids, faults, gone>>

\* a mutation by another caller: what the pending call holds is from before it
Overtaken(p) == IF p = <<>> THEN p ELSE [p EXCEPT !.overtaken = TRUE]

NextConcurrent ==
    \/ BeginGetRetrivals
    \/ EndGetRetrivals
    \/ GoodAddItem /\ pending' = Overtaken(pending)
    \/ GoodDeleteItem /\ pending' = Overtaken(pending)
    \/ GoodGetRetrivals /\ UNCHANGED pending

SpecConcurrent == Init /\ [][NextConcurrent]_vars

\* ------------------------------------------------- one bulk_add_items call
\* bulk_add_items on a new engine with an empty index; `pending` holds the
\* arguments of the call.  The metadatas list may name the same dict at
\* several positions.

BatchArgs ==
    UNION {[contents : [1..n -> Contents],
            metadatas : [1..n -> MetaRefs],
            item_types : [1..n -> {"t1", "t2"}]] : n \in 0..MaxBatch}

InitBulk ==
    /\ index = EmptyMap
    /\ embedding_cache = EmptyMap
    /\ retrieval_cache_file = NoFile
    /\ retrieval_cache = _load_retrieval_cache(retrieval_cache_file)
    /\ uuids = 0
    /\ faults = 0
    /\ invoked = {}
    /\ old = {}
    /\ staleFile = {}
    /\ gone = {}
    /\ ret = Call("init")
    /\ pending \in BatchArgs

CallBulkAddItems ==
    /\ UNCHANGED pending
    /\ \E o \in Within(AddOutcomes(Len(pending.contents)),
                      <<{}, TRUE, Len(pending.contents), "ok">>) :
           bulk_add_items(pending.contents, pending.metadatas,
                          pending.item_types, o[1], o[2], o[3], o[4])

NextBulk == CallBulkAddItems

SpecBulk == InitBulk /\ [][NextBulk]_vars

\* ================================================================== claims

Mutations == {"add_item", "bulk_add_items", "delete_item"}

\* C1: a result that was cached before a successful index mutation is never
\* returned by a get_retrivals made after it: no entry of the retrieval
\* cache is from before a mutation, and the first get_retrivals for such a
\* query misses and queries the index.
C1_NothingFromBeforeAMutation ==
    /\ old \cap DOMAIN retrieval_cache = {}
    /\ (ret.op = "get_retrivals" /\ ret.old) =>
          (~ret.hit /\ (ret.ok => ret.queries = 1))

C1_Witness ==
    ret.op = "get_retrivals" /\ ret.old /\ ret.ok /\ ret.queries = 1

\* C2: right after add_item, bulk_add_items or delete_item returned without
\* error the retrieval cache is empty.
C2_EmptyAfterMutation ==
    (ret.op \in Mutations /\ ret.ok) => retrieval_cache = EmptyMap

\* bulk_add_items with empty lists emptied a cache that held entries
C2_Witness ==
    ret.op = "bulk_add_items" /\ ret.ok /\ ret.out = <<>> /\ ret.dropped > 0

\* C3: once delete_item(id) returned without error no get_retrivals returns
\* a list containing id, until an item with that id is upserted again.
C3_DeletedIdNotReturned ==
    (ret.op = "get_retrivals" /\ ret.ok) =>
        \A i \in DOMAIN ret.out : ret.out[i].id \notin gone

\* a query cached before the delete is answered, with other items, after it
C3_Witness ==
    /\ ret.op = "get_retrivals" /\ ret.ok /\ ret.old
    /\ gone # {}
    /\ ret.out # <<>>

\* C4: bulk_add_items with lists that are not all of the same length raises
\* the validation error and has no effect: no embedding lookup, no upsert,
\* no change of the retrieval cache, its snapshot or the callers' dicts.
C4_MismatchedBatchRejected ==
    [][(ret'.op = "bulk_add_items" /\ ret'.mismatch) =>
          /\ ret'.err = "ValueError"
          /\ ret'.lookups = 0 /\ ret'.embeds = 0 /\ ret'.upserts = 0
          /\ ret'.saves = 0 /\ ~ret'.touched
          /\ UNCHANGED <<index, embedding_cache, retrieval_cache,
                         retrieval_cache_file>>]_vars

C4_Witness ==
    /\ ret.op = "bulk_add_items" /\ ret.mismatch /\ ret.err = "ValueError"
    /\ retrieval_cache # EmptyMap

\* C5: get_retrivals on a key that is cached returns the cached list and
\* makes no index query, no embedding lookup and no snapshot write; the
\* index is queried only for a key that is not cached, a query that
\* succeeds leaves its key cached, and entries leave the cache only when it
\* is emptied.
C5_IndexOnlyOnMiss ==
    [][/\ (ret'.op = "get_retrivals" /\ ret'.key \in DOMAIN retrieval_cache) =>
              /\ ret'.hit /\ ret'.ok
              /\ ret'.out = retrieval_cache[ret'.key]
              /\ ret'.queries = 0 /\ ret'.lookups = 0 /\ ret'.embeds = 0
              /\ ret'.saves = 0
              /\ UNCHANGED <<index, embedding_cache, retrieval_cache,
                             retrieval_cache_file>>
       /\ (ret'.op = "get_retrivals" /\ ret'.queries = 1) =>
              /\ ret'.key \notin DOMAIN retrieval_cache
              /\ ret'.ok => ret'.key \in DOMAIN retrieval_cache'
       /\ \A k \in DOMAIN retrieval_cache :
              k \in DOMAIN retrieval_cache' \/ retrieval_cache' = EmptyMap]_vars

C5_Witness ==
    ret.op = "get_retrivals" /\ ret.hit /\ ret.out # <<>> /\ ret.queries = 0

\* the list get_retrivals builds from the matches of a response
FromMatches(list, matches) ==
    /\ Len(list) = Len(matches)
    /\ \A i \in DOMAIN matches :
          /\ list[i].id = matches[i].id
          /\ list[i].score = matches[i].score
          /\ list[i].metadata = matches[i].metadata

\* C6: the retrieval cache starts empty, and an entry is inserted or changed
\* only by a get_retrivals miss whose index query succeeded, under the key
\* of that call and with the matches the index returned for that query,
\* top_k and filter; a get_retrivals that fails inserts nothing.
C6_EntriesFromLiveQueries ==
    /\ retrieval_cache = EmptyMap
    /\ [][/\ \A k \in DOMAIN retrieval_cache' :
                (k \notin DOMAIN retrieval_cache
                    \/ retrieval_cache'[k] # retrieval_cache[k]) =>
                   /\ ret'.op = "get_retrivals" /\ ret'.ok /\ ~ret'.hit
                   /\ ret'.queries = 1 /\ ret'.key = k
                   /\ \E q \in Queries, t \in TopKs, f \in GetFilters :
                         /\ _generate_retrieval_key(q, t, f) = k
                         /\ FromMatches(retrieval_cache'[k],
                                        IndexQuery(index, Embed(q), t, f).matches)
          /\ (ret'.op = "get_retrivals" /\ ~ret'.ok) =>
                UNCHANGED retrieval_cache]_vars

C6_Witness ==
    /\ ret.op = "get_retrivals" /\ ret.ok /\ ~ret.hit
    /\ ret.key \in DOMAIN retrieval_cache
    /\ Len(retrieval_cache[ret.key]) = 2

SamePairs(f1, f2) ==
    ~f1.isNone /\ ~f2.isNone /\ Range(f1.items) = Range(f2.items)

\* C7: two filters that hold the same key/value pairs in a different order
\* give the same retrieval key, for every query and top_k.
C7_KeyIgnoresFieldOrder ==
    (ret.op = "_generate_retrieval_key" /\ ret.key # <<>>
        /\ SamePairs(ret.out[3], ret.out[4])) =>
        ret.key[1] = ret.key[2]

C7_Witness ==
    /\ ret.op = "_generate_retrieval_key" /\ ret.key # <<>>
    /\ SamePairs(ret.out[3], ret.out[4])
    /\ ret.out[3] # ret.out[4]
    /\ ret.key[1] = ret.key[2]

\* C8: a snapshot written from the retrieval cache loads back as the same
\* map: in every state a successful write followed by a load gives the map
\* in memory, after a call whose write succeeded the file loads as the map in
\* memory, and a new engine starts with what the file holds.
C8_SnapshotRoundTrip ==
    /\ _load_retrieval_cache(
           _save_retrieval_cache(retrieval_cache, retrieval_cache_file, "ok"))
         = retrieval_cache
    /\ ret.saved =>
          _load_retrieval_cache(retrieval_cache_file) = retrieval_cache
    /\ ret.op = "__init__" =>
          /\ retrieval_cache = _load_retrieval_cache(retrieval_cache_file)
          /\ retrieval_cache_file.kind = "pickle" =>
                PickleDump(retrieval_cache) = retrieval_cache_file.bytes

\* a new engine loaded two entries with non-empty lists
C8_Witness ==
    /\ ret.op = "__init__"
    /\ Cardinality(DOMAIN retrieval_cache) = 2
    /\ \E k \in DOMAIN retrieval_cache : retrieval_cache[k] # <<>>

\* C9 as stated: the embedding function is never invoked for a content it
\* was invoked for before.
C9_InvokedOncePerContent == ~ret.again

\* C9 amended: the embedding function is never invoked for a content whose
\* embedding is in the cache, and a cached embedding never changes: an
\* invocation that failed stores nothing, so only then is the function
\* invoked again for the same content.
C9_CachedEmbeddingReused ==
    [][/\ ~ret'.redone
       /\ \A c \in DOMAIN embedding_cache :
             /\ c \in DOMAIN embedding_cache'
             /\ embedding_cache'[c] = embedding_cache[c]]_vars

\* a batch of two lookups that invoked the embedding function once
C9_Witness ==
    /\ ret.op = "bulk_add_items" /\ ret.ok
    /\ ret.lookups = 2 /\ ret.embeds = 1

\* C10: also when snapshot writes fail and the engine is restarted, a
\* get_retrivals never returns a result cached before a successful index
\* mutation.
C10_NoStaleHitAcrossRestart ==
    (ret.op = "get_retrivals" /\ ret.old) => ~ret.hit

\* C11: a snapshot write that fails does not fail the operation: the call
\* returns its normal result without error, its index call has taken
\* effect, and the retrieval cache in memory is what a successful write
\* would have left (empty after a mutation or a clear, the stored list after
\* a get_retrivals miss).
C11_FailedWriteSwallowed ==
    [][(ret'.saves = 1 /\ ~ret'.saved) =>
          /\ ret'.ok /\ ret'.err = ""
          /\ ret'.op \in Mutations \cup {"clear_retrieval_cache"} =>
                retrieval_cache' = EmptyMap
          /\ ret'.op = "add_item" =>
                ret'.upserts = 1 /\ ret'.out \in DOMAIN index'
          /\ ret'.op = "bulk_add_items" =>
                /\ ret'.upserts = 1
                /\ \A i \in DOMAIN ret'.out : ret'.out[i] \in DOMAIN index'
          /\ ret'.op = "delete_item" =>
                /\ ret'.deletes = 1
                /\ gone \subseteq gone'
                /\ gone' \cap DOMAIN index' = {}
          /\ ret'.op = "get_retrivals" =>
                /\ ret'.queries = 1
                /\ retrieval_cache' =
                       SetItem(retrieval_cache, ret'.key, ret'.out)]_vars

\* delete_item emptied a cache that held entries although its write failed
C11_Witness ==
    /\ ret.op = "delete_item" /\ ret.ok
    /\ ret.saves = 1 /\ ~ret.saved
    /\ ret.dropped > 0

\* C12: construction never fails on the snapshot: with a missing or
\* unreadable file the engine starts with an empty retrieval cache, with a
\* readable file the cache is exactly the mapping the file holds.
C12_LoadIsNonFatal ==
    ret.op \in {"init", "__init__"} =>
        /\ ret.ok /\ ret.err = ""
        /\ IF retrieval_cache_file.kind = "pickle"
           THEN LET bytes == retrieval_cache_file.bytes
                IN  /\ DOMAIN retrieval_cache = {bytes[i].key : i \in DOMAIN bytes}
                    /\ \A i \in DOMAIN bytes :
                          retrieval_cache[bytes[i].key] = bytes[i].value
           ELSE retrieval_cache = EmptyMap

\* a new engine found the file a failed write left behind
C12_Witness ==
    /\ ret.op = "__init__"
    /\ retrieval_cache_file.kind = "corrupt"
    /\ index # EmptyMap
    /\ retrieval_cache = EmptyMap

\* C13: bulk_add_items returns item_0 .. item_(n-1) in input order whatever
\* was called before and whatever the index holds, and writes exactly those
\* entries of the index (replacing the ones an earlier batch wrote);
\* add_item returns an id that is not in the index and was not returned
\* before, and adds one entry.
C13_PositionalAndFreshIds ==
    [][/\ (ret'.op = "bulk_add_items" /\ ret'.ok) =>
              LET n == Len(ret'.out)
                  ids == {<<"item_", i - 1>> : i \in 1..n}
              IN  /\ ret'.out = [i \in 1..n |-> <<"item_", i - 1>>]
                  /\ DOMAIN index' = DOMAIN index \cup ids
                  /\ \A id \in (DOMAIN index) \ ids : index'[id] = index[id]
       /\ (ret'.op = "add_item" /\ ret'.ok) =>
              /\ ret'.out \notin DOMAIN index
              /\ ret'.out \notin {Uuid(k) : k \in 1..uuids}
              /\ ret'.out[1] # "item_"
              /\ DOMAIN index' = DOMAIN index \cup {ret'.out}
              /\ \A id \in DOMAIN index : index'[id] = index[id]]_vars

\* a batch of one item replaced item_0 of an earlier batch of two, after two
\* add_item calls
C13_Witness ==
    /\ ret.op = "bulk_add_items" /\ ret.ok
    /\ Len(ret.out) = 1
    /\ ItemId(1) \in DOMAIN index
    /\ uuids = 2
    /\ Cardinality(DOMAIN index) = 4

\* C14: a failed external call is not retried and nothing is rolled back:
\* when the upsert of add_item fails, one upsert was attempted, the call
\* fails without returning an id, the retrieval cache and its snapshot are
\* as before, nothing is deleted from the index, and an embedding stored by
\* the call stays; every call that fails leaves the retrieval cache alone,
\* and no call makes more than one upsert, query, delete or snapshot write
\* or invokes the embedding function for a content that is cached.
C14_NoRetryNoRollback ==
    [][/\ (ret'.op = "add_item" /\ ret'.err = "upsert") =>
              /\ ~ret'.ok /\ ret'.out = <<>>
              /\ ret'.upserts = 1 /\ ret'.deletes = 0 /\ ret'.saves = 0
              /\ UNCHANGED <<retrieval_cache, retrieval_cache_file>>
              /\ \A id \in DOMAIN index :
                    id \in DOMAIN index' /\ index'[id] = index[id]
              /\ \A c \in DOMAIN embedding_cache : c \in DOMAIN embedding_cache'
              /\ ret'.embeds = 1 =>
                    DOMAIN embedding_cache' # DOMAIN embedding_cache
       /\ ~ret'.ok =>
              /\ ret'.err # "" /\ ret'.out = <<>> /\ ret'.saves = 0
              /\ UNCHANGED <<retrieval_cache, retrieval_cache_file>>
              /\ ret'.err = "embedding" =>
                    ret'.upserts = 0 /\ ret'.queries = 0 /\ UNCHANGED index
       /\ ret'.upserts <= 1 /\ ret'.queries <= 1 /\ ret'.deletes <= 1
       /\ ret'.saves <= 1
       /\ ret'.embeds <= ret'.lookups /\ ~ret'.redone]_vars

\* add_item stored a new embedding, its upsert failed, the cache kept its
\* entries
C14_Witness ==
    /\ ret.op = "add_item" /\ ret.err = "upsert"
    /\ ret.embeds = 1
    /\ retrieval_cache # EmptyMap

\* C15: clear_retrieval_cache empties the retrieval cache and writes the
\* empty snapshot, makes no index call and no embedding lookup and leaves
\* the index and the embedding cache as they are; a get_retrivals that
\* follows it is a miss.
C15_ClearIsAnInvalidation ==
    [][/\ ret'.op = "clear_retrieval_cache" =>
              /\ ret'.ok
              /\ retrieval_cache' = EmptyMap
              /\ ret'.saves = 1
              /\ ret'.saved =>
                    /\ retrieval_cache_file'.kind = "pickle"
                    /\ retrieval_cache_file'.bytes = <<>>
              /\ ret'.upserts = 0 /\ ret'.queries = 0 /\ ret'.deletes = 0
              /\ ret'.lookups = 0 /\ ret'.embeds = 0
              /\ UNCHANGED <<index, embedding_cache>>
       /\ (ret.op = "clear_retrieval_cache" /\ ret'.op = "get_retrivals") =>
              /\ ~ret'.hit
              /\ ret'.ok => ret'.queries = 1]_vars

C15_Witness ==
    /\ ret.op = "clear_retrieval_cache" /\ ret.saved
    /\ ret.dropped > 0
    /\ index # EmptyMap
    /\ embedding_cache # EmptyMap

\* C16: the snapshot follows the map in memory: they agree at construction,
\* a call whose write succeeds (or that writes nothing) keeps them in
\* agreement, a successful write leaves the file equal to the dump of the
\* whole map, and every call that changes the map writes the snapshot.
C16_WriteThrough ==
    /\ _load_retrieval_cache(retrieval_cache_file) = retrieval_cache
    /\ [][/\ (/\ _load_retrieval_cache(retrieval_cache_file) = retrieval_cache
              /\ ret'.saves = 0 \/ ret'.saved) =>
                 _load_retrieval_cache(retrieval_cache_file') = retrieval_cache'
          /\ ret'.saved =>
                 /\ retrieval_cache_file' = PickleFile(PickleDump(retrieval_cache'))
                 /\ _load_retrieval_cache(retrieval_cache_file') = retrieval_cache'
          /\ retrieval_cache' # retrieval_cache => ret'.saves = 1
          /\ ret'.saves = 0 => UNCHANGED retrieval_cache_file]_vars

\* after a get_retrivals miss the snapshot holds both entries of the cache
C16_Witness ==
    /\ ret.op = "get_retrivals" /\ ret.saved
    /\ Cardinality(DOMAIN retrieval_cache) = 2
    /\ retrieval_cache_file = PickleFile(PickleDump(retrieval_cache))

\* C17: whatever point of a call the process crashes at, an engine restarted
\* from the snapshot returns no result that was cached before an index
\* mutation that had taken effect.
C17_NoStaleHitAfterCrash ==
    ~(ret.op = "get_retrivals" /\ ret.hit /\ ret.old)

\* C18: with concurrent callers no get_retrivals that queried the index
\* before a mutation stores its result after the invalidation of that
\* mutation, and no get_retrivals returns such a result: the retrieval cache
\* holds no entry from before a mutation and no hit returns one.
C18_MutationExcludesGet ==
    /\ \A k \in DOMAIN retrieval_cache : k \notin old
    /\ (ret.op = "get_retrivals" /\ ret.hit) => ret.key \notin old

\* C19: a bulk_add_items call that returns has sent one upsert with one
\* vector per item, in input order: the i-th vector has the id item_(i-1),
\* the embedding of contents[i] as values, and metadata whose content is
\* contents[i] and whose item_type is item_types[i], also when the same
\* dict is passed at several positions.
C19_OneVectorPerItem ==
    (ret.op = "bulk_add_items" /\ ret.ok) =>
        LET n == Len(pending.contents)
        IN  /\ ret.upserts = 1
            /\ ret.out = [i \in 1..n |-> ItemId(i - 1)]
            /\ DOMAIN index = {ItemId(i - 1) : i \in 1..n}
            /\ \A i \in 1..n :
                  /\ index[ItemId(i - 1)].values = Embed(pending.contents[i])
                  /\ index[ItemId(i - 1)].metadata["content"] = pending.contents[i]
                  /\ index[ItemId(i - 1)].metadata["item_type"] = pending.item_types[i]

\* C20: between calls every entry of the retrieval cache is the list the
\* index returns now for the query, top_k and filter of the entry, also
\* after a mutation whose index call raised an error.
C20_CacheAgreesWithIndex ==
    \A k \in DOMAIN retrieval_cache :
        \E q \in Queries, t \in TopKs, f \in GetFilters :
            /\ _generate_retrieval_key(q, t, f) = k
            /\ FromMatches(retrieval_cache[k],
                           IndexQuery(index, Embed(q), t, f).matches)

====
